---- MODULE Spec2Model ----
(***************************************************************************)
(* A model of make_fixtures.py: FixtureMaker builds one placeholder record *)
(* per (app_label, model) pair of a worklist that grows while it is        *)
(* iterated.  Python values are written as strings ("1", "True", "None");  *)
(* names that the code slices or joins are sequences of characters.        *)
(***************************************************************************)
EXTENDS Integers, Sequences, FiniteSets, TLC

VARIABLES
    registry,      \* the models get_model can find: model -> its _meta
    model_names,   \* the names build_fixtures is asked for (args)
    use_all,       \* FixtureMaker.use_all
    app_models,    \* FixtureMaker.app_models, the worklist
    pos,           \* position of the for loop of build_fixtures in app_models
    fixtures,      \* FixtureMaker._fixtures
    pc,            \* "start", "loop", "done"; "value" in ValueSpec
    vfield,        \* ValueSpec: the last argument of get_default_value
    vresult        \* ValueSpec: what it returned

vars == <<registry, model_names, use_all, app_models, pos, fixtures, pc, vfield, vresult>>

----------------------------------------------------------------------------
(* Bounds of the model *)

\* the most non-primary-key attributes declared over all models together
MaxAttrs == 2
\* the most model names on the command line
MaxNames == 2
\* the worklist is not grown past this length
MaxWork == 7

----------------------------------------------------------------------------
(* Python values *)

None == "None"

NOT_PROVIDED == [kind |-> "NOT_PROVIDED", v |-> "NOT_PROVIDED"]

\* a declared default: a plain value, or a callable returning one
DeclaredDefaults == { [kind |-> k, v |-> x] : k \in {"value", "callable"}, x \in {"dflt", None} }

FIELD_TYPE_DEFAULTS == [
    AutoField |-> "1",
    BooleanField |-> "True",
    CharField |-> "Default CharField",
    CommaSeparatedIntegerField |-> "1,2,3,4,5",
    DateField |-> "today %Y-%m-%d",
    DateTimeField |-> "now %Y-%m-%d %H:%M:%S",
    DecimalField |-> "1.0",
    EmailField |-> "person@example.com",
    FileField |-> None,
    FilePathField |-> "/path/to/file",
    FloatField |-> "1.0",
    IntegerField |-> "1",
    IPAddressField |-> "127.0.0.1",
    NullBooleanField |-> None,
    PositiveIntegerField |-> "1000000",
    PositiveSmallIntegerField |-> "1",
    SlugField |-> "test-slug",
    SmallIntegerField |-> "16384",
    TextField |-> "lorem ipsum",
    TimeField |-> "00:00:00",
    URLField |-> "http://www.example.com",
    XMLField |-> "<xml><head></head><body></body></xml>" ]

\* field.__class__.__bases__ for the field classes of the model: the built-in
\* classes of the table, built-in classes the table has no key for, and two
\* classes of a project (MyCharField, BigAutoField)
Bases(cls) ==
    CASE cls \in {"CommaSeparatedIntegerField", "EmailField", "SlugField",
                  "URLField", "MyCharField"} -> <<"CharField">>
      [] cls \in {"PositiveIntegerField", "PositiveSmallIntegerField",
                  "SmallIntegerField", "BigIntegerField"} -> <<"IntegerField">>
      [] cls = "DateTimeField" -> <<"DateField">>
      [] cls = "XMLField" -> <<"TextField">>
      [] cls = "ImageField" -> <<"FileField">>
      [] cls = "BigAutoField" -> <<"AutoField">>
      [] cls = "OneToOneField" -> <<"ForeignKey">>
      [] cls \in {"ForeignKey", "ManyToManyField"} -> <<"RelatedField", "Field">>
      [] cls \in {"Field", "RelatedField"} -> <<"object">>
      [] cls \in {"object", "LegacyField"} -> <<>>
      [] OTHER -> <<"Field">>

FieldClasses ==
    DOMAIN FIELD_TYPE_DEFAULTS \cup
    {"BigIntegerField", "ImageField", "MyCharField", "BigAutoField",
     "ForeignKey", "OneToOneField", "ManyToManyField", "LegacyField"}

\* the class object itself, as line 98 passes it on
ClassObject(cls) == [is_class |-> TRUE, cls |-> cls]

\* field.default exists: set by Field.__init__, so on instances only
HasDefaultAttr(field) == ~field.is_class

\* line 89: the field declares its own default
ProvidesDefaultNever(field) == FALSE

ProvidesDefault(field) == field.default # NOT_PROVIDED

callable(default) == default.kind = "callable"

\* field.default(): what the callable returns
Call(default) == default.v

\* lines 90-93: the declared default, called when it is callable
DeclaredValue(field) ==
    IF callable(field.default) THEN Call(field.default) ELSE field.default.v

get_internal_type(field) == field.internal_type

RECURSIVE get_default_value(_)
get_default_value(field) ==
    IF ~HasDefaultAttr(field) THEN None                      \* AttributeError
    ELSE IF ProvidesDefault(field) THEN DeclaredValue(field)
    ELSE IF get_internal_type(field) \in DOMAIN FIELD_TYPE_DEFAULTS
         THEN FIELD_TYPE_DEFAULTS[get_internal_type(field)]
    ELSE IF Len(Bases(field.cls)) > 0                        \* KeyError
         THEN get_default_value(ClassObject(Bases(field.cls)[1]))
    ELSE None

----------------------------------------------------------------------------
(* Models, their fields, and the installed apps *)

\* settings.INSTALLED_APPS, each entry a dotted path split at its dots
INSTALLED_APPS == << <<"proj", "a">>, <<"b">> >>

\* app_label.split(".")[-1]
LastComponent(path) == path[Len(path)]

Model(app_label, name) == [app_label |-> app_label, name |-> name]

\* what get_model returns when there is no such model
NoModel == Model("", "")

\* the model classes of the installation: X is defined by both apps
Models == {Model("a", "X"), Model("b", "X"), Model("a", "Y")}

ModelNames == {"X", "Y"}

get_model(app_label, model_name) ==
    IF Model(app_label, model_name) \in DOMAIN registry
    THEN Model(app_label, model_name) ELSE NoModel

\* lines 75-78 for one installed app
AppModelsOfApp(app_label, names) ==
    LET found == [i \in 1..Len(names) |->
                     <<LastComponent(app_label), get_model(LastComponent(app_label), names[i])>>]
        isModel(am) == am[2] # NoModel
    IN SelectSeq(found, isModel)

RECURSIVE AppModelsFrom(_, _)
AppModelsFrom(a, names) ==
    IF a > Len(INSTALLED_APPS) THEN <<>>
    ELSE AppModelsOfApp(INSTALLED_APPS[a], names) \o AppModelsFrom(a + 1, names)

\* model_names is a list here; a str argument (line 72) is passed as <<name>>
get_app_models(names) == AppModelsFrom(1, names)

\* hasattr(field, "rel") and hasattr(field.rel, "to")
HasRelTo(field) == field.rel # {}

RelTo(field) == CHOOSE m \in field.rel : TRUE

IsForeignKey(field) == field.cls \in {"ForeignKey", "OneToOneField"}

\* hasattr(field, "m2m_reverse_name")
HasM2MReverseName(field) == field.cls = "ManyToManyField"

\* Field.get_attname: the name, with "_id" appended by a ForeignKey
get_attname(field) ==
    IF IsForeignKey(field) THEN field.name \o <<"_", "i", "d">> ELSE field.name

\* field_name[:-3]
DropLast3(s) == SubSeq(s, 1, Len(s) - 3)

\* "%s.%s" % (app_label, model.__name__)
ModelIdentifier(app_label, model) == <<app_label, ".", model.name>>

\* lines 134 and 143: self.use_all or not field.blank
WantedAlways(ua, field) == TRUE

Wanted(ua, field) == ua \/ ~field.blank

\* lines 110-113
get_default_pk(model) ==
    LET fs == registry[model].fields
        pks == {i \in 1..Len(fs) : fs[i].primary_key}
    IN IF pks = {} THEN None
       ELSE get_default_value(fs[CHOOSE i \in pks : \A j \in pks : i <= j])

\* [m[1] for m in self.app_models]
WorklistModels(am) == {am[j][2] : j \in 1..Len(am)}

\* lines 128-146: the loop over the fields from position i on, with the worklist
\* am and the dict fields as they stand
RECURSIVE FieldLoop(_, _, _, _, _)
FieldLoop(fs, i, am, fields, ua) ==
    IF i > Len(fs) THEN [app_models |-> am, fields |-> fields]
    ELSE LET field == fs[i] IN
      IF field.primary_key THEN FieldLoop(fs, i + 1, am, fields, ua)
      ELSE IF HasRelTo(field) THEN
        IF RelTo(field) \in WorklistModels(am) THEN FieldLoop(fs, i + 1, am, fields, ua)
        ELSE IF Wanted(ua, field) THEN
          LET app_model == get_app_models(<<RelTo(field).name>>)
              field_name == get_attname(field)
          IN FieldLoop(fs, i + 1, Append(am, app_model[1]),
                       IF HasM2MReverseName(field)
                       THEN (field_name :> "[1]") @@ fields
                       ELSE (DropLast3(field_name) :> "1") @@ fields,
                       ua)
        ELSE FieldLoop(fs, i + 1, am, fields, ua)
      ELSE IF Wanted(ua, field) THEN
        LET default == get_default_value(field)
        IN IF default # None
           THEN FieldLoop(fs, i + 1, am, (get_attname(field) :> default) @@ fields, ua)
           ELSE FieldLoop(fs, i + 1, am, fields, ua)
      ELSE FieldLoop(fs, i + 1, am, fields, ua)

\* lines 121-148: the record built for app_model and the worklist afterwards
build_fixture(app_model, am, ua) ==
    LET app_label == app_model[1]
        model == app_model[2]
        r == FieldLoop(registry[model].fields \o registry[model].many_to_many,
                       1, am, <<>>, ua)
    IN [app_models |-> r.app_models,
        instance |-> [pk |-> get_default_pk(model),
                      model |-> ModelIdentifier(app_label, model),
                      fields |-> r.fields]]

----------------------------------------------------------------------------
(* The installations and command lines the model runs on *)

SeqsUpTo(S, n) == UNION {[1..k -> S] : k \in 0..n}

Digit == <<"1", "2", "3", "4", "5">>

\* a field instance; the name is given by Named
FieldInstance(cls, default, blank, null, rel) ==
    [is_class |-> FALSE, name |-> <<>>, primary_key |-> FALSE, cls |-> cls,
     internal_type |-> cls, default |-> default, blank |-> blank, null |-> null,
     rel |-> rel]

\* the fields of attrs named <<prefix, "1">>, <<prefix, "2">>, ...
Named(prefix, attrs) ==
    [i \in 1..Len(attrs) |-> [attrs[i] EXCEPT !.name = <<prefix, Digit[i]>>]]

\* the primary key Django adds (id), a CharField key, and a key of a project
\* class derived from AutoField whose internal type is its own name
PrimaryKey(kind) ==
    [FieldInstance(kind, NOT_PROVIDED, kind # "CharField", FALSE, {})
        EXCEPT !.name = <<"i", "d">>, !.primary_key = TRUE]

PkKinds == {"AutoField", "CharField", "BigAutoField"}

ForeignKeys(targets) ==
    { FieldInstance("ForeignKey", NOT_PROVIDED, b, FALSE, {t}) :
        t \in targets, b \in BOOLEAN }

ManyToManyFields(targets) ==
    { FieldInstance("ManyToManyField", NOT_PROVIDED, b, FALSE, {t}) :
        t \in targets, b \in BOOLEAN }

Meta(pk, fks, m2ms) ==
    [fields |-> <<PrimaryKey(pk)>> \o Named("f", fks), many_to_many |-> Named("m", m2ms)]

NumAttrs(meta) == Len(meta.fields) - 1 + Len(meta.many_to_many)

\* the _meta of a model of at most n attributes, all of them relations
RelationMetas(n) ==
    { Meta("AutoField", fks, m2ms) :
        fks \in SeqsUpTo(ForeignKeys(Models), n),
        m2ms \in SeqsUpTo(ManyToManyFields(Models), n) }

ForeignKeyMetas(n) ==
    { Meta("AutoField", fks, <<>>) : fks \in SeqsUpTo(ForeignKeys(Models), n) }

CommandLines == SeqsUpTo(ModelNames, MaxNames) \ {<<>>}

NoField == FieldInstance("Field", NOT_PROVIDED, FALSE, FALSE, {})

Idle ==
    /\ app_models = <<>>
    /\ pos = 1
    /\ fixtures = <<>>
    /\ vfield = NoField
    /\ vresult = "unset"

\* any three models with at most MaxAttrs relations among them
Init ==
    /\ \E ma \in {m \in RelationMetas(MaxAttrs) : NumAttrs(m) <= MaxAttrs} :
       \E mb \in {m \in RelationMetas(MaxAttrs - NumAttrs(ma)) :
                     NumAttrs(ma) + NumAttrs(m) <= MaxAttrs} :
       \E mc \in {m \in RelationMetas(MaxAttrs - NumAttrs(ma) - NumAttrs(mb)) :
                     NumAttrs(ma) + NumAttrs(mb) + NumAttrs(m) <= MaxAttrs} :
          registry = (Model("a", "X") :> ma) @@ (Model("b", "X") :> mb)
                       @@ (Model("a", "Y") :> mc)
    /\ model_names \in CommandLines
    /\ use_all \in BOOLEAN
    /\ pc = "start"
    /\ Idle

----------------------------------------------------------------------------
(* build_fixtures *)

\* line 155: get_app_models on the command line's names (the code reads the
\* script's global args, the list build_fixtures is called with)
Start ==
    /\ pc = "start"
    /\ app_models' = get_app_models(model_names)
    /\ pos' = 1
    /\ pc' = "loop"
    /\ UNCHANGED <<registry, model_names, use_all, fixtures, vfield, vresult>>

\* lines 156-157: one pass of the loop, the whole of build_fixture
BuildFixture ==
    /\ pc = "loop"
    /\ pos <= Len(app_models)
    /\ LET r == build_fixture(app_models[pos], app_models, use_all)
       IN /\ Len(r.app_models) <= MaxWork
          /\ app_models' = r.app_models
          /\ fixtures' = Append(fixtures, r.instance)
    /\ pos' = pos + 1
    /\ UNCHANGED <<registry, model_names, use_all, pc, vfield, vresult>>

\* the loop has reached the end of the list
Finish ==
    /\ pc = "loop"
    /\ pos > Len(app_models)
    /\ pc' = "done"
    /\ UNCHANGED <<registry, model_names, use_all, app_models, pos, fixtures, vfield, vresult>>

Next == Start \/ BuildFixture \/ Finish

Spec == Init /\ [][Next]_vars

\* lines 155-157 as one computation: the loop from position i on, given up
\* (done = FALSE) when the worklist would pass MaxWork
RECURSIVE RunLoop(_, _, _, _)
RunLoop(am, fx, i, ua) ==
    IF i > Len(am) THEN [app_models |-> am, fixtures |-> fx, done |-> TRUE]
    ELSE LET r == build_fixture(am[i], am, ua)
         IN IF Len(r.app_models) > MaxWork
            THEN [app_models |-> am, fixtures |-> fx, done |-> FALSE]
            ELSE RunLoop(r.app_models, Append(fx, r.instance), i + 1, ua)

build_fixtures(names, ua) == RunLoop(get_app_models(names), <<>>, 1, ua)

----------------------------------------------------------------------------
(* The loop of build_fixtures as its control reads it.  Line 132 reads the *)
(* worklist only through membership and line 156 reads it only from the    *)
(* loop position on, so the entries the loop has passed are kept once each *)
(* and the records are not kept: a run that never reaches the end of the   *)
(* list then comes back to a state it was in.                              *)

RECURSIVE Distinct(_)
Distinct(s) ==
    IF s = <<>> THEN <<>>
    ELSE LET rest == Distinct(SubSeq(s, 1, Len(s) - 1))
             last == s[Len(s)]
         IN IF \E j \in 1..Len(rest) : rest[j] = last THEN rest ELSE Append(rest, last)

\* line 156: the for statement takes the next entry of the worklist
NextItem ==
    /\ pc = "loop"
    /\ pos <= Len(app_models)
    /\ pc' = "build"
    /\ UNCHANGED <<registry, model_names, use_all, app_models, pos, fixtures, vfield, vresult>>

\* line 157: build_fixture on the entry taken
BuildFixtureLoop ==
    /\ pc = "build"
    /\ LET r == build_fixture(app_models[pos], app_models, use_all)
           passed == Distinct(SubSeq(r.app_models, 1, pos))
           ahead == SubSeq(r.app_models, pos + 1, Len(r.app_models))
       IN /\ Len(passed \o ahead) <= MaxWork
          /\ app_models' = passed \o ahead
          /\ pos' = Len(passed) + 1
    /\ pc' = "loop"
    /\ UNCHANGED <<registry, model_names, use_all, fixtures, vfield, vresult>>

LoopNext == Start \/ NextItem \/ BuildFixtureLoop \/ Finish

\* any three models with at most MaxAttrs foreign keys among them
LoopInit ==
    /\ \E ma \in ForeignKeyMetas(MaxAttrs) :
       \E mb \in ForeignKeyMetas(MaxAttrs - NumAttrs(ma)) :
       \E mc \in ForeignKeyMetas(MaxAttrs - NumAttrs(ma) - NumAttrs(mb)) :
          registry = (Model("a", "X") :> ma) @@ (Model("b", "X") :> mb)
                       @@ (Model("a", "Y") :> mc)
    /\ model_names \in CommandLines
    /\ use_all \in BOOLEAN
    /\ pc = "start"
    /\ Idle

\* the interpreter always runs the next statement
LoopSpec == LoopInit /\ [][LoopNext]_vars /\ WF_vars(LoopNext)

\* the bound MaxWork never stops the loop of LoopSpec
LoopNeverCut == pc = "done" \/ ENABLED LoopNext

----------------------------------------------------------------------------
(* One model's attributes in detail *)

MaxFields == 2

PlainFields ==
    { FieldInstance("CharField", d, b, n, {}) :
        d \in {NOT_PROVIDED, [kind |-> "value", v |-> "dflt"]},
        b \in BOOLEAN, n \in BOOLEAN }
    \cup { FieldInstance("FileField", NOT_PROVIDED, FALSE, FALSE, {}) }

NullableForeignKeys(targets) ==
    { FieldInstance("ForeignKey", NOT_PROVIDED, b, n, {t}) :
        t \in targets, b \in BOOLEAN, n \in BOOLEAN }

\* a.X declares up to MaxFields attributes, plain ones and foreign keys to a.Y;
\* every model has a primary key of the same kind
InitFields ==
    /\ \E pk \in PkKinds :
       \E fs \in SeqsUpTo(PlainFields \cup NullableForeignKeys({Model("a", "Y")}), MaxFields) :
          registry = (Model("a", "X") :> Meta(pk, fs, <<>>))
                       @@ (Model("b", "X") :> Meta(pk, <<>>, <<>>))
                       @@ (Model("a", "Y") :> Meta(pk, <<>>, <<>>))
    /\ model_names \in CommandLines
    /\ use_all \in BOOLEAN
    /\ pc = "start"
    /\ Idle

FieldSpec == InitFields /\ [][Next]_vars

----------------------------------------------------------------------------
(* get_default_value on its own *)

\* a field instance of class cls; get_internal_type is the class's own or the
\* one it inherits from its first base
InternalTypes(cls) ==
    {cls} \cup (IF Bases(cls) # <<>> /\ Bases(cls)[1] \in FieldClasses
                THEN {Bases(cls)[1]} ELSE {})

FieldObjects ==
    UNION { { [FieldInstance(cls, d, FALSE, FALSE, {}) EXCEPT !.internal_type = t] :
                d \in {NOT_PROVIDED} \cup DeclaredDefaults, t \in InternalTypes(cls) } :
            cls \in FieldClasses }

InitValue ==
    /\ registry = <<>>
    /\ model_names = <<>>
    /\ use_all = FALSE
    /\ pc = "value"
    /\ Idle

GetDefaultValue ==
    /\ pc = "value"
    /\ \E f \in FieldObjects :
          /\ vfield' = f
          /\ vresult' = get_default_value(f)
    /\ UNCHANGED <<registry, model_names, use_all, app_models, pos, fixtures, pc>>

ValueSpec == InitValue /\ [][GetDefaultValue]_vars

----------------------------------------------------------------------------
(* What the claims speak of *)

Records == 1..Len(fixtures)

\* record i was built for the worklist entry i (in Spec and FieldSpec)
BuiltFor(i) == app_models[i][2]

\* the non-primary-key attributes of a model
Attributes(model) ==
    LET fs == registry[model].fields \o registry[model].many_to_many
    IN {fs[i] : i \in {j \in 1..Len(fs) : ~fs[j].primary_key}}

Relations(model) == {f \in Attributes(model) : HasRelTo(f)}

\* the key an attribute has in fields: its name
KeyOf(field) == field.name

Keys(i) == DOMAIN fixtures[i].fields

RecordModels(fx) == {fx[i].model : i \in 1..Len(fx)}

KeysOfModel(fx, id) == UNION {DOMAIN fx[i].fields : i \in {j \in 1..Len(fx) : fx[j].model = id}}

IdOf(model) == ModelIdentifier(model.app_label, model)

\* the stepwise loop and the loop as one computation agree
StepsAgree ==
    pc = "done" =>
        LET run == build_fixtures(model_names, use_all)
        IN run.done /\ run.fixtures = fixtures /\ run.app_models = app_models

\* the key written for an attribute is the attribute's name
KeysAreNames ==
    \A i \in Records : Keys(i) \subseteq {KeyOf(f) : f \in Attributes(BuiltFor(i))}

\* C1: when build_fixtures has finished there is exactly one record per visited
\* model: no model has two records and no model is twice in the worklist
C1_OneRecordPerModel ==
    pc = "done" =>
        /\ Len(fixtures) = Len(app_models)
        /\ \A i, j \in Records : i # j => fixtures[i].model # fixtures[j].model
        /\ \A i, j \in 1..Len(app_models) : i # j => app_models[i] # app_models[j]

\* C2: when build_fixtures has finished, every relation entry written into a
\* record (1 or [1]) refers to a record of the output: one whose model is the
\* model the attribute refers to and whose pk is 1
C2_ReferencesResolve ==
    pc = "done" =>
        \A i \in Records : \A f \in Relations(BuiltFor(i)) :
            KeyOf(f) \in Keys(i) =>
                \E j \in Records : /\ fixtures[j].model = IdOf(RelTo(f))
                                   /\ fixtures[j].pk = "1"

\* C4: with use_all, every non-primary-key attribute of every visited model has
\* an entry in the model's record and every related model is visited
C4_AllFieldsAndRelations ==
    (use_all /\ pc = "done") =>
        \A i \in Records :
            /\ \A f \in Attributes(BuiltFor(i)) : KeyOf(f) \in Keys(i)
            /\ \A f \in Relations(BuiltFor(i)) : RelTo(f) \in WorklistModels(app_models)

\* C9: in both modes, every record has an entry for every non-blank relation of
\* its model, whatever was visited before
C9_NonBlankRelationsHaveEntries ==
    \A i \in Records : \A f \in Relations(BuiltFor(i)) :
        ~f.blank => KeyOf(f) \in Keys(i)

\* C10: the models with a record without use_all have a record with use_all,
\* and the keys of a model's fields without use_all are keys with use_all
C10_UseAllOnlyAdds ==
    (pc = "done" /\ ~use_all) =>
        LET all == build_fixtures(model_names, TRUE)
        IN all.done =>
             /\ RecordModels(fixtures) \subseteq RecordModels(all.fixtures)
             /\ \A id \in RecordModels(fixtures) :
                   KeysOfModel(fixtures, id) \subseteq KeysOfModel(all.fixtures, id)

\* C8: build_fixtures ends: the loop reaches the end of the worklist
C8_Terminates == <>(pc = "done")

C7_RecordShape ==
    \A i \in Records :
        LET fs == registry[BuiltFor(i)].fields
            pk == CHOOSE f \in {fs[j] : j \in 1..Len(fs)} : f.primary_key
        IN /\ fixtures[i].pk = get_default_value(pk)
           /\ fixtures[i].pk # None
           /\ fixtures[i].model = <<BuiltFor(i).app_label, ".", BuiltFor(i).name>>
           /\ get_attname(pk) \notin Keys(i)

\* the built-in class get_default_value should fall back to: the first class
\* with a table entry on the chain of first bases
RECURSIVE BuiltinBase(_)
BuiltinBase(cls) ==
    IF cls \in DOMAIN FIELD_TYPE_DEFAULTS THEN cls
    ELSE IF Bases(cls) = <<>> THEN "none"
    ELSE BuiltinBase(Bases(cls)[1])

Called == vresult # "unset"

\* C5: a declared default is returned and the table is not consulted; without
\* one, the table's value for the internal type is returned
C5_ResolutionOrder ==
    Called =>
        /\ vfield.default # NOT_PROVIDED => vresult = vfield.default.v
        /\ (vfield.default = NOT_PROVIDED
              /\ vfield.internal_type \in DOMAIN FIELD_TYPE_DEFAULTS)
             => vresult = FIELD_TYPE_DEFAULTS[vfield.internal_type]

\* a callable default was returned where the table holds another value
C5_Witness ==
    /\ Called
    /\ vfield.default.kind = "callable"
    /\ vfield.internal_type \in DOMAIN FIELD_TYPE_DEFAULTS
    /\ vresult = "dflt"
    /\ vresult # FIELD_TYPE_DEFAULTS[vfield.internal_type]

\* C6: for a field without a default whose internal type has no table entry
\* and whose class derives from a built-in class, the built-in class's table
\* value is returned
C6_SubclassFallback ==
    (/\ Called
     /\ vfield.default = NOT_PROVIDED
     /\ vfield.internal_type \notin DOMAIN FIELD_TYPE_DEFAULTS
     /\ BuiltinBase(vfield.cls) # "none")
       => vresult = FIELD_TYPE_DEFAULTS[BuiltinBase(vfield.cls)]

====
